---- MODULE Spec2Model ----
(***************************************************************************)
(* tuple_fdw: a block-structured, LZ4-compressed, checksummed append-only  *)
(* tuple store (storage.c) and the PostgreSQL foreign-data-wrapper adapter *)
(* that drives it (tuple_fdw.c).                                           *)
(*                                                                         *)
(* The storage engine is modelled at byte level: the backing file and the  *)
(* block buffer are sequences of bytes, integers are stored little-endian  *)
(* in fields of the width the C structures give them.  BLOCK_SIZE is       *)
(* scaled down from 1 MiB to a few MAXALIGN words so that full blocks,     *)
(* rollover and oversize rows are all reachable.                           *)
(***************************************************************************)
EXTENDS Integers, Sequences, FiniteSets, TLC

(***************************************************************************)
(* Bounds of the model.                                                    *)
(***************************************************************************)
BlockWords == 4          \* MAXALIGN words in one block (scaled BLOCK_SIZE)
MaxRows == 3             \* rows inserted successfully over the whole run
MaxEof == 2              \* reads made after the first end-of-data

(***************************************************************************)
(* Program constants.                                                      *)
(***************************************************************************)
MAXIMUM_ALIGNOF == 8
SizeofStorageFileHeader == 8
StorageBlockHeaderSize == 8
StorageTupleHeaderSize == 8
SizeofInt32 == 4
BS_INVALID == 0
BS_NEW == 1
BS_LOADED == 2
BS_MODIFIED == 3
ACCELERATION_DEFAULT == 1

BLOCK_SIZE == BlockWords * MAXIMUM_ALIGNOF

MAXALIGN(n) == ((n + MAXIMUM_ALIGNOF - 1) \div MAXIMUM_ALIGNOF) * MAXIMUM_ALIGNOF

NoError == "none"
ErrTupleSize == "tuple_fdw: maximum tuple size exceeded"
ErrChecksum == "tuple_fdw: wrong checksum"
ErrDecompress == "tuple_fdw: decompression failed"
ErrMmap == "tuple_fdw: mmap failed"
ErrSignal == "SIGSEGV"
ErrAlloc == "invalid memory alloc request size"

(***************************************************************************)
(* Bytes and little-endian integers.                                       *)
(***************************************************************************)
\* the w bytes of n, least significant first (0 <= n < 2^31 in every use)
ToBytes(n, w) ==
    [i \in 1..w |-> IF i = 1 THEN n % 256
                    ELSE IF i = 2 THEN (n \div 256) % 256
                    ELSE IF i = 3 THEN (n \div 65536) % 256
                    ELSE IF i = 4 THEN (n \div 16777216) % 256
                    ELSE 0]

\* a signed 32-bit field (int32_t, pg_crc32c compared for equality only)
Int32(b) ==
    b[1] + 256 * b[2] + 65536 * b[3]
        + 16777216 * (IF b[4] >= 128 THEN b[4] - 256 ELSE b[4])

\* palloc's limit; a Size field holding more than this reads as HugeSize, which
\* stands for every value too large to be an offset or a length in a block
MaxAllocSize == 1073741823
HugeSize == MaxAllocSize + 1

\* an unsigned 64-bit field (Size)
SizeOf(b) ==
    IF b[4] >= 64 \/ b[5] # 0 \/ b[6] # 0 \/ b[7] # 0 \/ b[8] # 0
    THEN HugeSize
    ELSE b[1] + 256 * b[2] + 65536 * b[3] + 16777216 * b[4]

Zeros(n) == [i \in 1..n |-> 0]

\* bytes s[from+1 .. from+n] of a 0-based offset `from`
Bytes(s, from, n) == [i \in 1..n |-> s[from + i]]

\* s with bytes b stored at 0-based offset pos (memcpy into a buffer, or a
\* positioned write that may extend a file)
StoreAt(s, pos, b) ==
    LET n == IF Len(s) > pos + Len(b) THEN Len(s) ELSE pos + Len(b)
    IN  [i \in 1..n |-> IF i > pos /\ i <= pos + Len(b) THEN b[i - pos]
                        ELSE IF i <= Len(s) THEN s[i] ELSE 0]

(***************************************************************************)
(* The block compressor and the checksum (external libraries).  The codec  *)
(* is run-length on the zero tail of a block: the raw length, the number   *)
(* of literal bytes, the literals, and, for acceleration above the         *)
(* default, filler that a faster and weaker match search leaves behind.    *)
(***************************************************************************)
RECURSIVE TrimLen(_, _)
TrimLen(s, n) == IF n = 0 THEN 0 ELSE IF s[n] # 0 THEN n ELSE TrimLen(s, n - 1)

AccelPenalty == 2 * MAXIMUM_ALIGNOF

LZ4_compress_fast(src, acceleration) ==
    LET a == IF acceleration <= 0 THEN ACCELERATION_DEFAULT ELSE acceleration
        n == TrimLen(src, Len(src))
    IN  <<Len(src), n>> \o SubSeq(src, 1, n)
            \o [i \in 1..((a - 1) * AccelPenalty) |-> 170]

\* [size, data]: size < 0 when the input is malformed or does not fit
LZ4_decompress_safe(src, dstCapacity) ==
    IF Len(src) < 2 THEN [size |-> -1, data |-> <<>>]
    ELSE LET raw == src[1]
             n == src[2]
         IN  IF n > raw \/ Len(src) < 2 + n \/ raw > dstCapacity
             THEN [size |-> -1, data |-> <<>>]
             ELSE [size |-> raw, data |-> SubSeq(src, 3, 2 + n) \o Zeros(raw - n)]

RECURSIVE WeightedSum(_, _)
WeightedSum(s, i) == IF i = 0 THEN 0 ELSE i * s[i] + WeightedSum(s, i - 1)

\* INIT_CRC32C / COMP_CRC32C / FIN_CRC32C over the bytes s: a position-weighted
\* sum, which like the CRC changes whenever one byte changes (kept below 2^31,
\* the largest integer TLC computes with)
Crc32c(s) == WeightedSum(s, Len(s)) % 2147483647

(***************************************************************************)
(* StorageState, as palloc0 leaves it.  `file` is whether the FILE * is    *)
(* open; the file's bytes are the variable `file` of the model.            *)
(***************************************************************************)
NullState ==
    [file |-> FALSE, mmaped_file |-> FALSE, mmaped_size |-> 0,
     readonly |-> FALSE,
     file_header |-> [last_block_offset |-> 0],
     cur_block |-> [status |-> BS_INVALID, offset |-> 0, compressed_size |-> 0,
                    data |-> Zeros(BLOCK_SIZE)],
     cur_offset |-> 0,
     lz4_acceleration |-> 0]

BlockIsInvalid(block) == block.status = BS_INVALID

(***************************************************************************)
(* Reads outside an object (the block buffer, the mapping) are undefined:  *)
(* `ub` carries what such a read yields.  oobLen is the length field read  *)
(* at data + BLOCK_SIZE (zero, or the neighbouring cur_offset field),      *)
(* oobErr how a checksum pass over bytes past the mapping ends.            *)
(***************************************************************************)
UB == [oobLen : {0, BLOCK_SIZE}, oobErr : {ErrChecksum, ErrSignal}]

\* read_storage_file_header writing the new header whatever the handle
read_storage_file_header_AlwaysWrite(state, f) ==
    IF state.mmaped_file
    THEN [state |-> [state EXCEPT !.file_header.last_block_offset =
                        SizeOf(Bytes(f, 0, SizeofStorageFileHeader))],
          file |-> f]
    ELSE IF Len(f) = 0
    THEN [state |-> [state EXCEPT !.file_header.last_block_offset =
                        SizeofStorageFileHeader],
          file |-> StoreAt(f, 0, ToBytes(SizeofStorageFileHeader,
                                         SizeofStorageFileHeader))]
    ELSE [state |-> [state EXCEPT !.file_header.last_block_offset =
                        SizeOf(Bytes(f, 0, SizeofStorageFileHeader))],
          file |-> f]

write_storage_file_header(state, f) ==
    StoreAt(f, 0, ToBytes(state.file_header.last_block_offset, SizeofStorageFileHeader))

read_storage_file_header(state, f) ==
    IF state.mmaped_file
    THEN [state |-> [state EXCEPT !.file_header.last_block_offset =
                        SizeOf(Bytes(f, 0, SizeofStorageFileHeader))],
          file |-> f]
    ELSE LET bytes == IF Len(f) < SizeofStorageFileHeader THEN Len(f)
                      ELSE SizeofStorageFileHeader
         IN  IF bytes = 0
             THEN LET s1 == [state EXCEPT !.file_header.last_block_offset =
                                SizeofStorageFileHeader]
                  IN  [state |-> s1,
                       file |-> IF ~state.readonly
                                THEN write_storage_file_header(s1, f) ELSE f]
             ELSE [state |-> [state EXCEPT !.file_header.last_block_offset =
                                SizeOf(Bytes(f, 0, SizeofStorageFileHeader))],
                   file |-> f]

\* decompress_block writes the decompressed bytes over the block buffer; the
\* Assert on the size is compiled out of a production build
decompress_block(state, compressed_data) ==
    LET d == LZ4_decompress_safe(compressed_data, BLOCK_SIZE)
    IN  IF d.size < 0
        THEN [err |-> ErrDecompress, state |-> state]
        ELSE [err |-> NoError,
              state |-> [state EXCEPT !.cur_block.data = StoreAt(@, 0, d.data)]]

\* verify_and_load without the checksum comparison
verify_and_load_NoChecksum(state, offset, compressed_size, checksum, compressed_data) ==
    LET d == decompress_block(state, compressed_data)
    IN  IF d.err # NoError
        THEN [ok |-> FALSE, err |-> d.err, state |-> state]
        ELSE [ok |-> TRUE, err |-> NoError,
              state |-> [d.state EXCEPT
                           !.cur_block.offset = offset,
                           !.cur_block.status = BS_LOADED,
                           !.cur_block.compressed_size = compressed_size,
                           !.cur_offset = 0]]

\* the tail of read_block: checksum comparison, decompression, bookkeeping
verify_and_load(state, offset, compressed_size, checksum, compressed_data) ==
    IF Crc32c(compressed_data) # checksum
    THEN [ok |-> FALSE, err |-> ErrChecksum, state |-> state]
    ELSE LET d == decompress_block(state, compressed_data)
         IN  IF d.err # NoError
             THEN [ok |-> FALSE, err |-> d.err, state |-> state]
             ELSE [ok |-> TRUE, err |-> NoError,
                   state |-> [d.state EXCEPT
                                !.cur_block.offset = offset,
                                !.cur_block.status = BS_LOADED,
                                !.cur_block.compressed_size = compressed_size,
                                !.cur_offset = 0]]

\* [ok, err, state]; the mapping holds the bytes of f (the file is not
\* written while a read-only handle is open on it)
read_block(state, f, offset, ub) ==
    LET NoBlock == [ok |-> FALSE, err |-> NoError, state |-> state]
    IN
    IF state.mmaped_file
    THEN IF offset >= state.mmaped_size THEN NoBlock
         ELSE IF offset + StorageBlockHeaderSize > state.mmaped_size
              THEN [ok |-> FALSE, err |-> ub.oobErr, state |-> state]
              ELSE LET size == Int32(Bytes(f, offset, SizeofInt32))
                       sum == Int32(Bytes(f, offset + SizeofInt32, SizeofInt32))
                   IN  IF size < 0
                          \/ offset + StorageBlockHeaderSize + size > state.mmaped_size
                       THEN [ok |-> FALSE, err |-> ub.oobErr, state |-> state]
                       ELSE verify_and_load(state, offset, size, sum,
                                Bytes(f, offset + StorageBlockHeaderSize, size))
    ELSE IF Len(f) < offset + StorageBlockHeaderSize THEN NoBlock
         ELSE LET size == Int32(Bytes(f, offset, SizeofInt32))
                  sum == Int32(Bytes(f, offset + SizeofInt32, SizeofInt32))
              IN  IF size < 0 \/ size > MaxAllocSize
                  THEN [ok |-> FALSE, err |-> ErrAlloc, state |-> state]
                  ELSE IF Len(f) < offset + StorageBlockHeaderSize + size THEN NoBlock
                  ELSE verify_and_load(state, offset, size, sum,
                           Bytes(f, offset + StorageBlockHeaderSize, size))

load_next_block(state, f, ub) ==
    LET offset == IF BlockIsInvalid(state.cur_block)
                  THEN SizeofStorageFileHeader
                  ELSE state.cur_block.offset + StorageBlockHeaderSize
                           + state.cur_block.compressed_size
    IN  read_block(state, f, offset, ub)

\* allocate_new_block leaving the block header out of the next offset
allocate_new_block_NoHeader(state) ==
    LET offset == IF state.cur_block.offset # 0
                  THEN state.cur_block.offset + state.cur_block.compressed_size
                  ELSE SizeofStorageFileHeader
    IN  [state EXCEPT !.cur_block.offset = offset,
                      !.cur_block.data = Zeros(BLOCK_SIZE),
                      !.cur_block.status = BS_NEW,
                      !.cur_offset = 0]

allocate_new_block(state) ==
    LET offset == IF state.cur_block.offset # 0
                  THEN state.cur_block.offset + StorageBlockHeaderSize
                           + state.cur_block.compressed_size
                  ELSE SizeofStorageFileHeader
    IN  [state EXCEPT !.cur_block.offset = offset,
                      !.cur_block.data = Zeros(BLOCK_SIZE),
                      !.cur_block.status = BS_NEW,
                      !.cur_offset = 0]

\* load_last_block after read_block returned r
LastBlockRead(r, state) ==
    IF r.err # NoError THEN [err |-> r.err, state |-> state]
    ELSE IF r.ok
    THEN [err |-> NoError,
          state |-> [r.state EXCEPT
                        !.cur_block.offset = state.file_header.last_block_offset,
                        !.cur_block.status = BS_LOADED]]
    ELSE [err |-> NoError, state |-> allocate_new_block(state)]

\* [err, state]
load_last_block(state, f, ub) ==
    LastBlockRead(read_block(state, f, state.file_header.last_block_offset, ub), state)

\* the length field of the record at offset off of the block buffer
TupleLength(data, off, ub) ==
    IF off + StorageTupleHeaderSize <= BLOCK_SIZE
    THEN SizeOf(Bytes(data, off, StorageTupleHeaderSize))
    ELSE ub.oobLen

RECURSIVE LastTupleOffset(_, _)
LastTupleOffset(data, off) ==
    IF ~(off < BLOCK_SIZE) THEN off
    ELSE LET length == SizeOf(Bytes(data, off, StorageTupleHeaderSize))
         IN  IF length = 0 THEN off
             ELSE LastTupleOffset(data, off + length + StorageTupleHeaderSize)

find_last_tuple_offset(state) ==
    [state EXCEPT !.cur_offset = LastTupleOffset(state.cur_block.data, 0)]

\* the StorageBlockHeader and the compressed bytes that follow it
compress_current_block(state) ==
    LET data == LZ4_compress_fast(state.cur_block.data, state.lz4_acceleration)
    IN  [compressed_size |-> Len(data), checksum |-> Crc32c(data), data |-> data]

\* flush_last_block, from the write of the compressed block on
WriteBlock(block_header, state, f) ==
    [state |-> [state EXCEPT
                  !.cur_block.compressed_size = block_header.compressed_size,
                  !.file_header.last_block_offset =
                      IF state.cur_block.status = BS_NEW
                      THEN state.cur_block.offset ELSE @,
                  !.cur_block.status = IF @ = BS_NEW THEN BS_LOADED ELSE @],
     file |-> StoreAt(
                 StoreAt(f, state.cur_block.offset,
                     ToBytes(block_header.compressed_size, SizeofInt32)
                         \o ToBytes(block_header.checksum, SizeofInt32)
                         \o block_header.data),
                 0,
                 IF state.cur_block.status = BS_NEW
                 THEN ToBytes(state.cur_block.offset, SizeofStorageFileHeader)
                 ELSE <<>>)]

\* [state, file]
flush_last_block(state, f) ==
    IF state.cur_block.status = BS_LOADED
    THEN [state |-> state, file |-> f]
    ELSE WriteBlock(compress_current_block(state), state, f)

(***************************************************************************)
(* The storage API.                                                        *)
(***************************************************************************)
\* mmap of a zero-length file fails with EINVAL
mmap_file(state, f) ==
    IF Len(f) = 0
    THEN [err |-> ErrMmap, state |-> state]
    ELSE [err |-> NoError,
          state |-> [state EXCEPT !.mmaped_file = TRUE, !.mmaped_size = Len(f)]]

\* StorageInit after mmap_file (if called) returned m
InitHeader(m, f) ==
    IF m.err # NoError
    THEN [err |-> m.err, state |-> m.state, file |-> f]
    ELSE [err |-> NoError] @@ read_storage_file_header(m.state, f)

\* [err, state, file]; the file exists (the validator creates it)
StorageInit(f, readonly, use_mmap) ==
    InitHeader(
        IF use_mmap
        THEN mmap_file([NullState EXCEPT !.readonly = readonly, !.file = TRUE], f)
        ELSE [err |-> NoError,
              state |-> [NullState EXCEPT !.readonly = readonly, !.file = TRUE]],
        f)

\* StorageInsertTuple writing the block out after every record
InsertRecord_WriteThrough(state, f, tuple) ==
    [err |-> NoError] @@
    flush_last_block(
        [state EXCEPT
           !.cur_block.data =
               StoreAt(@, state.cur_offset,
                   ToBytes(MAXALIGN(tuple.t_len), StorageTupleHeaderSize)
                       \o tuple.t_data),
           !.cur_block.status = IF @ # BS_NEW THEN BS_MODIFIED ELSE @,
           !.cur_offset = @ + MAXALIGN(tuple.t_len + StorageTupleHeaderSize)],
        f)

\* StorageInsertTuple, from the copy of the record into the block buffer on
InsertRecord(state, f, tuple) ==
    [err |-> NoError,
     state |-> [state EXCEPT
                  !.cur_block.data =
                      StoreAt(@, state.cur_offset,
                          ToBytes(MAXALIGN(tuple.t_len), StorageTupleHeaderSize)
                              \o tuple.t_data),
                  !.cur_block.status = IF @ # BS_NEW THEN BS_MODIFIED ELSE @,
                  !.cur_offset = @ + MAXALIGN(tuple.t_len + StorageTupleHeaderSize)],
     file |-> f]

\* the record goes to a new block after the flush of the current one
InsertFlushed(fl, tuple) ==
    InsertRecord(allocate_new_block(fl.state), fl.file, tuple)

\* StorageInsertTuple, from the test "does the tuple fit current block?" on
InsertFit(state, f, tuple) ==
    IF state.cur_offset + MAXALIGN(tuple.t_len + StorageTupleHeaderSize) > BLOCK_SIZE
    THEN InsertFlushed(flush_last_block(state, f), tuple)
    ELSE InsertRecord(state, f, tuple)

\* the first insert continues after load_last_block returned l
InsertLoaded(l, state, f, tuple) ==
    IF l.err # NoError
    THEN [err |-> l.err, state |-> state, file |-> f]
    ELSE InsertFit(find_last_tuple_offset(l.state), f, tuple)

\* the part of StorageInsertTuple after the size check
InsertChecked(state, f, tuple, ub) ==
    IF BlockIsInvalid(state.cur_block)
    THEN InsertLoaded(load_last_block(state, f, ub), state, f, tuple)
    ELSE InsertFit(state, f, tuple)

\* the size test after load_last_block returned l
LateCheck(l, state, f, tuple, ub) ==
    IF l.err # NoError
    THEN [err |-> l.err, state |-> state, file |-> f]
    ELSE IF MAXALIGN(tuple.t_len + StorageTupleHeaderSize) > BLOCK_SIZE
    THEN [err |-> ErrTupleSize, state |-> l.state, file |-> f]
    ELSE InsertChecked(state, f, tuple, ub)

\* StorageInsertTuple testing the size only after it has loaded the last block
StorageInsertTuple_LateCheck(state, f, tuple, ub) ==
    LateCheck(IF BlockIsInvalid(state.cur_block)
              THEN load_last_block(state, f, ub)
              ELSE [err |-> NoError, state |-> state],
              state, f, tuple, ub)

\* [err, state, file]
StorageInsertTuple(state, f, tuple, ub) ==
    IF MAXALIGN(tuple.t_len + StorageTupleHeaderSize) > BLOCK_SIZE
    THEN [err |-> ErrTupleSize, state |-> state, file |-> f]
    ELSE InsertChecked(state, f, tuple, ub)

NULL == [t_len |-> -1, t_data |-> <<>>]

\* the HeapTuple StorageReadTuple builds over the record at offset off: t_data
\* points into the block buffer, and is given here as far as the buffer goes
\* (fewer than t_len bytes when the record runs past the end of the buffer)
CurrentTuple(data, off, length) ==
    LET from == off + StorageTupleHeaderSize
        n == IF from >= BLOCK_SIZE THEN 0
             ELSE IF from + length > BLOCK_SIZE THEN BLOCK_SIZE - from
             ELSE length
    IN  [t_len |-> length, t_data |-> Bytes(data, from, n)]

\* StorageReadTuple returns the record of the given length at the cursor
ReturnTuple(state, length) ==
    [err |-> NoError,
     state |-> [state EXCEPT !.cur_offset = @ + length + StorageTupleHeaderSize],
     tuple |-> CurrentTuple(state.cur_block.data, state.cur_offset, length)]

\* StorageReadTuple after load_next_block loaded a block
FirstTuple(state, length) ==
    IF length = 0
    THEN [err |-> NoError, state |-> state, tuple |-> NULL]
    ELSE ReturnTuple(state, length)

\* StorageReadTuple after load_next_block returned r
NextBlockRead(r, state, ub) ==
    IF r.err # NoError
    THEN [err |-> r.err, state |-> state, tuple |-> NULL]
    ELSE IF ~r.ok
    THEN [err |-> NoError, state |-> state, tuple |-> NULL]
    ELSE FirstTuple(r.state, TupleLength(r.state.cur_block.data, r.state.cur_offset, ub))

\* StorageReadTuple with the length field at the cursor read (0 when the
\* test short-circuits before it)
ReadAtCursor(state, f, length, ub) ==
    IF BlockIsInvalid(state.cur_block) \/ state.cur_offset > BLOCK_SIZE
       \/ length = 0
    THEN NextBlockRead(load_next_block(state, f, ub), state, ub)
    ELSE ReturnTuple(state, length)

\* [err, state, tuple]
StorageReadTuple(state, f, ub) ==
    ReadAtCursor(state, f,
        IF BlockIsInvalid(state.cur_block) \/ state.cur_offset > BLOCK_SIZE
        THEN 0
        ELSE TupleLength(state.cur_block.data, state.cur_offset, ub),
        ub)

\* StorageRelease closes the stream
FreeFile(r) == [state |-> [r.state EXCEPT !.file = FALSE], file |-> r.file]

\* StorageRelease flushing whatever the block's status is
StorageRelease_FlushAlways(state, f) ==
    FreeFile(flush_last_block(state, f))

\* [state, file]; FreeFile closes the stream, the mapping (if any) stays
StorageRelease(state, f) ==
    FreeFile(IF state.cur_block.status = BS_NEW
                \/ state.cur_block.status = BS_MODIFIED
             THEN flush_last_block(state, f)
             ELSE [state |-> state, file |-> f])

(***************************************************************************)
(* One backend running statements on the foreign table, one at a time.     *)
(*   file       the bytes of the backing file                              *)
(*   state      the StorageState of the running statement                  *)
(*   pc         idle, scan, modify, ended (EndForeign* ran), error         *)
(*   err        the error raised (elog ERROR), NoError if none             *)
(*   out        what StorageReadTuple returned in this scan, in order      *)
(*   callbacks  reset callbacks registered on es_query_cxt                 *)
(*   mapping    live: mappings not yet unmapped, stale: munmap calls on    *)
(*              a mapping that was already unmapped                        *)
(*   hist       rows: the tuples inserted so far; sessions: modifications  *)
(*              that inserted; clean: no modification has aborted          *)
(*   lastOp     the storage call of the last step and its tuple length     *)
(*   corrupted  a stored byte was altered behind the engine's back         *)
(* Several backends and the relation lock (specification SpecLock, below): *)
(*   xact       per backend: the statement it runs, the relation locks its *)
(*              transaction holds, its scan handle and its modify handle   *)
(*   io         the last operation on the backing file: who, through which *)
(*              handle, what                                               *)
(* The table's definition and the planner (specification SpecOptions):     *)
(*   catalog    the options of the foreign table as the catalog holds them *)
(*   planned    the statement being planned or run: what the validator or  *)
(*              the planner callbacks made of the options                  *)
(***************************************************************************)
VARIABLES file, state, pc, err, out, callbacks, mapping, hist, lastOp, corrupted,
          xact, io, catalog, planned

storageVars == <<file, state, pc, err, out, callbacks, mapping, hist, lastOp, corrupted>>
lockVars == <<xact, io>>
optionVars == <<catalog, planned>>
hostVars == <<lockVars, optionVars>>
vars == <<storageVars, hostVars>>

\* tuple lengths offered to an insert: empty, unaligned, aligned, the largest
\* that fits a block, the smallest that does not
TupleLengths == {0, 5, 8, BLOCK_SIZE - StorageTupleHeaderSize,
                 BLOCK_SIZE - StorageTupleHeaderSize + 1}

\* lz4_acceleration option values
Accelerations == {1, 2}

\* the n-th tuple inserted: t_len bytes, each n
HeapTuple(t_len, n) == [t_len |-> t_len, t_data |-> [i \in 1..t_len |-> n]]

Op(name, t_len) == [op |-> name, t_len |-> t_len]

\* backends that may run statements on the table at the same time
NBackends == 2
Backends == 1..NBackends

\* a storage handle as the lock protocol sees it
NoHandle == [status |-> "none", readonly |-> FALSE, mmaped_file |-> FALSE]
IdleXact == [stmt |-> "none", phase |-> "idle", locks |-> {},
             scan |-> NoHandle, modify |-> NoHandle]
NoIO == [backend |-> 0, handle |-> "none", op |-> "none"]

(***************************************************************************)
(* Table options: the validator and the planner callbacks.                 *)
(***************************************************************************)
\* options in one OPTIONS list, columns of the table
MaxOptions == 3

ErrFilenameRequired == "tuple_fdw: filename is required"
ErrUnknownOption == "tuple_fdw: unknown option"
ErrInvalidAttribute == "tuple_fdw: invalid attribute name"
ErrCannotOpen == "cannot open file"
ErrBoolean == "requires a Boolean value"
ErrInteger == "invalid input syntax for integer"
ErrNoOrdering == "could not identify an ordering operator"

\* the columns of the foreign table: attribute number, and whether the
\* column's type has a default ordering operator (c is a json column)
Attributes == [a |-> [attnum |-> 1, ordered |-> TRUE],
               b |-> [attnum |-> 2, ordered |-> TRUE],
               c |-> [attnum |-> 3, ordered |-> FALSE]]

InvalidAttrNumber == 0

\* the characters of the values offered for the sorted option
CharsOf(arg) ==
    CASE arg = "a" -> <<"a">>
      [] arg = "c" -> <<"c">>
      [] arg = "x" -> <<"x">>
      [] arg = "a b" -> <<"a", " ", "b">>
      [] arg = "b a" -> <<"b", " ", "a">>
      [] arg = " b  a " -> <<" ", "b", " ", " ", "a", " ">>
      [] arg = "a x" -> <<"a", " ", "x">>
      [] arg = "ab" -> <<"a", "b">>
      [] OTHER -> <<>>

OptionArgs(defname) ==
    CASE defname = "filename" -> {"/data/t.bin"}
      [] defname = "sorted" -> {"", "a", "c", "x", "a b", "b a", " b  a ", "a x", "ab"}
      [] defname = "use_mmap" -> {"true", "false", "maybe"}
      [] defname = "lz4_acceleration" -> {"1", "2", "fast"}
      [] OTHER -> {"on"}

OptionNames == {"filename", "sorted", "use_mmap", "lz4_acceleration", "compression"}

DefElem(defname, arg) == [defname |-> defname, arg |-> arg]

\* the OPTIONS lists the host hands to the validator: it has already
\* rejected a list that gives an option twice
OptionLists ==
    {l \in UNION {[1..n -> UNION {{DefElem(d, v) : v \in OptionArgs(d)} : d \in OptionNames}]
                      : n \in 0..MaxOptions} :
        \A i, j \in DOMAIN l : l[i].defname = l[j].defname => i = j}

\* strtok(start, " "): the tokens between runs of the delimiter
RECURSIVE SkipDelimiters(_)
SkipDelimiters(cs) ==
    IF cs # <<>> /\ Head(cs) = " " THEN SkipDelimiters(Tail(cs)) ELSE cs

RECURSIVE TokenLength(_)
TokenLength(cs) ==
    IF cs = <<>> \/ Head(cs) = " " THEN 0 ELSE 1 + TokenLength(Tail(cs))

get_attnum(token) ==
    IF Len(token) = 1 /\ token[1] \in DOMAIN Attributes
    THEN Attributes[token[1]].attnum
    ELSE InvalidAttrNumber

\* [err, attrs]: the attribute numbers of the tokens, in order, up to the
\* first token that names no column
RECURSIVE ParseTokens(_, _)
ParseTokens(cs, attrs) ==
    IF SkipDelimiters(cs) = <<>>
    THEN [err |-> NoError, attrs |-> attrs]
    ELSE IF get_attnum(SubSeq(SkipDelimiters(cs), 1, TokenLength(SkipDelimiters(cs))))
               = InvalidAttrNumber
    THEN [err |-> ErrInvalidAttribute, attrs |-> attrs]
    ELSE ParseTokens(
             SubSeq(SkipDelimiters(cs), TokenLength(SkipDelimiters(cs)) + 1,
                    Len(SkipDelimiters(cs))),
             Append(attrs,
                 get_attnum(SubSeq(SkipDelimiters(cs), 1,
                                   TokenLength(SkipDelimiters(cs))))))

parse_attributes_list(start) == ParseTokens(CharsOf(start), <<>>)

defGetBoolean(arg) ==
    IF arg \in {"true", "false"}
    THEN [err |-> NoError, value |-> (arg = "true")]
    ELSE [err |-> ErrBoolean, value |-> FALSE]

pg_atoi(arg) ==
    CASE arg = "1" -> [err |-> NoError, value |-> 1]
      [] arg = "2" -> [err |-> NoError, value |-> 2]
      [] OTHER -> [err |-> ErrInteger, value |-> 0]

\* tuple_fdw_validator on the options of a foreign table, from option i on.
\* exists: the file is there; creatable: AllocateFile(filename, "ab+") can
\* create it.  [err, created]
RECURSIVE ValidateFrom(_, _, _, _, _, _)
ValidateFrom(options_list, i, filename_provided, exists, creatable, created) ==
    IF i > Len(options_list)
    THEN [err |-> IF filename_provided THEN NoError ELSE ErrFilenameRequired,
          created |-> created]
    ELSE IF options_list[i].defname = "filename"
    THEN IF ~exists /\ ~creatable
         THEN [err |-> ErrCannotOpen, created |-> created]
         ELSE ValidateFrom(options_list, i + 1, TRUE, TRUE, creatable,
                           created \/ ~exists)
    ELSE IF options_list[i].defname = "sorted"
    THEN ValidateFrom(options_list, i + 1, filename_provided, exists, creatable, created)
    ELSE IF options_list[i].defname = "use_mmap"
    THEN IF defGetBoolean(options_list[i].arg).err # NoError
         THEN [err |-> ErrBoolean, created |-> created]
         ELSE ValidateFrom(options_list, i + 1, filename_provided, exists,
                           creatable, created)
    ELSE IF options_list[i].defname = "lz4_acceleration"
    THEN ValidateFrom(options_list, i + 1, filename_provided, exists, creatable, created)
    ELSE [err |-> ErrUnknownOption, created |-> created]

\* tuple_fdw_validator without the final test of filename_provided
tuple_fdw_validator_NoFilenameTest(options_list, exists, creatable) ==
    ValidateFrom(options_list, 1, TRUE, exists, creatable, FALSE)

tuple_fdw_validator(options_list, exists, creatable) ==
    ValidateFrom(options_list, 1, FALSE, exists, creatable, FALSE)

\* struct fdw_options after palloc0
ZeroOptions == [filename |-> "", attrs_sorted |-> <<>>, use_mmap |-> FALSE,
                lz4_acceleration |-> 0]

\* extract_table_options, from option i of the table on.  [err, options]
RECURSIVE ExtractFrom(_, _, _)
ExtractFrom(table_options, i, options) ==
    IF i > Len(table_options)
    THEN [err |-> NoError, options |-> options]
    ELSE IF table_options[i].defname = "filename"
    THEN ExtractFrom(table_options, i + 1,
                     [options EXCEPT !.filename = table_options[i].arg])
    ELSE IF table_options[i].defname = "sorted"
    THEN IF parse_attributes_list(table_options[i].arg).err # NoError
         THEN [err |-> ErrInvalidAttribute, options |-> options]
         ELSE ExtractFrom(table_options, i + 1,
                  [options EXCEPT !.attrs_sorted =
                      parse_attributes_list(table_options[i].arg).attrs])
    ELSE IF table_options[i].defname = "use_mmap"
    THEN IF defGetBoolean(table_options[i].arg).err # NoError
         THEN [err |-> ErrBoolean, options |-> options]
         ELSE ExtractFrom(table_options, i + 1,
                  [options EXCEPT !.use_mmap = defGetBoolean(table_options[i].arg).value])
    ELSE IF table_options[i].defname = "lz4_acceleration"
    THEN IF pg_atoi(table_options[i].arg).err # NoError
         THEN [err |-> ErrInteger, options |-> options]
         ELSE ExtractFrom(table_options, i + 1,
                  [options EXCEPT !.lz4_acceleration = pg_atoi(table_options[i].arg).value])
    ELSE ExtractFrom(table_options, i + 1, options)

\* options is the descriptor as the caller allocated it
extract_table_options(table_options, options) ==
    ExtractFrom(table_options, 1,
                [options EXCEPT !.lz4_acceleration = ACCELERATION_DEFAULT])

fdw_options_to_list(o) == <<o.filename, o.use_mmap, o.lz4_acceleration>>

\* the attribute with number attnum
AttributeOf(attnum) ==
    CHOOSE name \in DOMAIN Attributes : Attributes[name].attnum = attnum

\* the loop of tupleGetForeignPaths putting each new key in front
RECURSIVE PathKeysFrom_Prepend(_, _, _)
PathKeysFrom_Prepend(attrs_sorted, i, pathkeys) ==
    IF i > Len(attrs_sorted)
    THEN [err |-> NoError, pathkeys |-> pathkeys]
    ELSE IF ~Attributes[AttributeOf(attrs_sorted[i])].ordered
    THEN [err |-> ErrNoOrdering, pathkeys |-> pathkeys]
    ELSE PathKeysFrom_Prepend(attrs_sorted, i + 1, <<attrs_sorted[i]>> \o pathkeys)

\* the loop of tupleGetForeignPaths: one pathkey for each attribute of
\* attrs_sorted from the i-th on; get_sort_group_operators raises an error
\* for a type that has no ordering operator.  [err, pathkeys]
RECURSIVE PathKeysFrom(_, _, _)
PathKeysFrom(attrs_sorted, i, pathkeys) ==
    IF i > Len(attrs_sorted)
    THEN [err |-> NoError, pathkeys |-> pathkeys]
    ELSE IF ~Attributes[AttributeOf(attrs_sorted[i])].ordered
    THEN [err |-> ErrNoOrdering, pathkeys |-> pathkeys]
    ELSE PathKeysFrom(attrs_sorted, i + 1, pathkeys \o <<attrs_sorted[i]>>)

ForeignPath(startup_cost, total_cost, pathkeys) ==
    [startup_cost |-> startup_cost, total_cost |-> total_cost, pathkeys |-> pathkeys]

\* add_path with the key list the loop built
AddPath(keys, pathlist) ==
    IF keys.err # NoError
    THEN [err |-> keys.err, pathlist |-> pathlist]
    ELSE [err |-> NoError,
          pathlist |-> Append(pathlist, ForeignPath(0, 100, keys.pathkeys))]

\* the pathlist of baserel after tupleGetForeignPaths.  [err, pathlist]
GetForeignPaths(options, pathlist) ==
    AddPath(PathKeysFrom(options.attrs_sorted, 1, <<>>), pathlist)

\* the catalog entry of the table: no table; the table the storage
\* specifications run on
NoTable == [defined |-> FALSE, options |-> <<>>]
DefaultOptions == [defined |-> TRUE,
                   options |-> <<DefElem("filename", "/data/t.bin")>>]

NoPlanHandle == [open |-> FALSE, readonly |-> FALSE, use_mmap |-> FALSE]

\* no statement runs.  phase: none, size, paths, planned, running, done,
\* failed; io: the file operations of the statement so far
NoStatement == [phase |-> "none", stmt |-> "none", err |-> NoError,
                ddl |-> <<>>, options |-> ZeroOptions, pathlist |-> <<>>,
                fdw_private |-> <<>>, handle |-> NoPlanHandle, io |-> <<>>]

\* what an fdw_options on the stack may hold before it is filled
StackOptions == {[ZeroOptions EXCEPT !.use_mmap = u] : u \in BOOLEAN}

Init ==
    /\ file = <<>>
    /\ state = NullState
    /\ pc = "idle"
    /\ err = NoError
    /\ out = <<>>
    /\ callbacks = 0
    /\ mapping = [live |-> 0, stale |-> 0]
    /\ hist = [rows |-> <<>>, sessions |-> 0, clean |-> TRUE]
    /\ lastOp = Op("none", 0)
    /\ corrupted = FALSE
    /\ xact = [b \in Backends |-> IdleXact]
    /\ io = NoIO
    /\ catalog = DefaultOptions
    /\ planned = NoStatement

\* tupleBeginForeignScan registering no reset callback
tupleBeginForeignScan_NoCallback(use_mmap) ==
    /\ pc = "idle"
    /\ \E r \in {StorageInit(file, TRUE, use_mmap)} :
           /\ state' = r.state
           /\ file' = r.file
           /\ err' = r.err
           /\ mapping' = [mapping EXCEPT !.live =
                             IF r.state.mmaped_file THEN @ + 1 ELSE @]
           /\ pc' = IF r.err # NoError THEN "error" ELSE "scan"
    /\ out' = <<>>
    /\ lastOp' = Op("StorageInit", 0)
    /\ UNCHANGED <<callbacks, hist, corrupted, hostVars>>

tupleBeginForeignScan(use_mmap) ==
    /\ pc = "idle"
    /\ \E r \in {StorageInit(file, TRUE, use_mmap)} :
           /\ state' = r.state
           /\ file' = r.file
           /\ err' = r.err
           /\ mapping' = [mapping EXCEPT !.live =
                             IF r.state.mmaped_file THEN @ + 1 ELSE @]
           /\ IF r.err # NoError
              THEN pc' = "error" /\ UNCHANGED callbacks
              ELSE /\ pc' = "scan"
                   /\ callbacks' = IF use_mmap THEN callbacks + 1 ELSE callbacks
    /\ out' = <<>>
    /\ lastOp' = Op("StorageInit", 0)
    /\ UNCHANGED <<hist, corrupted, hostVars>>

NullsIn(s) == Cardinality({i \in DOMAIN s : s[i] = NULL})

tupleIterateForeignScan(ub) ==
    /\ pc = "scan"
    /\ NullsIn(out) <= MaxEof
    /\ \E r \in {StorageReadTuple(state, file, ub)} :
           /\ state' = r.state
           /\ err' = r.err
           /\ IF r.err # NoError
              THEN pc' = "error" /\ UNCHANGED out
              ELSE pc' = "scan" /\ out' = Append(out, r.tuple)
    /\ lastOp' = Op("StorageReadTuple", 0)
    /\ UNCHANGED <<file, callbacks, mapping, hist, corrupted, hostVars>>

tupleEndForeignScan ==
    /\ pc = "scan"
    /\ \E r \in {StorageRelease(state, file)} :
           state' = r.state /\ file' = r.file
    /\ pc' = "ended"
    /\ lastOp' = Op("StorageRelease", 0)
    /\ UNCHANGED <<err, out, callbacks, mapping, hist, corrupted, hostVars>>

tupleBeginForeignModify(lz4_acceleration) ==
    /\ pc = "idle"
    /\ \E r \in {StorageInit(file, FALSE, FALSE)} :
           /\ state' = [r.state EXCEPT !.lz4_acceleration = lz4_acceleration]
           /\ file' = r.file
           /\ err' = r.err
           /\ mapping' = [mapping EXCEPT !.live =
                             IF r.state.mmaped_file THEN @ + 1 ELSE @]
           /\ pc' = IF r.err # NoError THEN "error" ELSE "modify"
    /\ out' = <<>>
    /\ lastOp' = Op("StorageInit", 0)
    /\ UNCHANGED <<callbacks, hist, corrupted, hostVars>>

tupleExecForeignInsert(t_len, ub) ==
    /\ pc = "modify"
    /\ Len(hist.rows) < MaxRows
    /\ \E tuple \in {HeapTuple(t_len, Len(hist.rows) + 1)} :
       \E r \in {StorageInsertTuple(state, file, tuple, ub)} :
           /\ state' = r.state
           /\ file' = r.file
           /\ err' = r.err
           /\ IF r.err # NoError
              THEN /\ pc' = "error"
                   /\ hist' = [hist EXCEPT !.clean = FALSE]
              ELSE /\ pc' = "modify"
                   /\ hist' = [hist EXCEPT
                                 !.rows = Append(@, tuple),
                                 !.sessions = IF lastOp.op = "StorageInit"
                                              THEN @ + 1 ELSE @]
    /\ lastOp' = Op("StorageInsertTuple", t_len)
    /\ UNCHANGED <<out, callbacks, mapping, corrupted, hostVars>>

tupleEndForeignModify ==
    /\ pc = "modify"
    /\ \E r \in {StorageRelease(state, file)} :
           state' = r.state /\ file' = r.file
    /\ pc' = "ended"
    /\ lastOp' = Op("StorageRelease", 0)
    /\ UNCHANGED <<err, out, callbacks, mapping, hist, corrupted, hostVars>>

\* unmap_file_callback for each callback registered on the query context
unmap_file(m) == IF m.live > 0 THEN [m EXCEPT !.live = @ - 1]
                 ELSE [m EXCEPT !.stale = @ + 1]

RECURSIVE RunResetCallbacks(_, _)
RunResetCallbacks(n, m) == IF n = 0 THEN m ELSE RunResetCallbacks(n - 1, unmap_file(m))

\* the executor frees the query context once the statement has ended
QueryContextReset ==
    /\ pc = "ended"
    /\ mapping' = RunResetCallbacks(callbacks, mapping)
    /\ callbacks' = 0
    /\ state' = NullState
    /\ pc' = "idle"
    /\ out' = <<>>
    /\ lastOp' = Op("none", 0)
    /\ UNCHANGED <<file, err, hist, corrupted, hostVars>>

\* some other part of the statement raises an error during the scan
ScanInterrupted ==
    /\ pc = "scan"
    /\ pc' = "error"
    /\ err' = "canceling statement"
    /\ lastOp' = Op("none", 0)
    /\ UNCHANGED <<file, state, out, callbacks, mapping, hist, corrupted, hostVars>>

\* error recovery: the transaction aborts, its files are closed and its
\* memory contexts, the query context among them, are deleted
AbortTransaction ==
    /\ pc = "error"
    /\ mapping' = RunResetCallbacks(callbacks, mapping)
    /\ callbacks' = 0
    /\ state' = NullState
    /\ pc' = "idle"
    /\ err' = NoError
    /\ out' = <<>>
    /\ lastOp' = Op("none", 0)
    /\ UNCHANGED <<file, hist, corrupted, hostVars>>

Next ==
    \/ \E use_mmap \in BOOLEAN : tupleBeginForeignScan(use_mmap)
    \/ \E ub \in UB : tupleIterateForeignScan(ub)
    \/ tupleEndForeignScan
    \/ \E a \in Accelerations : tupleBeginForeignModify(a)
    \/ \E t_len \in TupleLengths, ub \in UB : tupleExecForeignInsert(t_len, ub)
    \/ tupleEndForeignModify
    \/ QueryContextReset
    \/ ScanInterrupted
    \/ AbortTransaction

\* the complete blocks of file f, found by walking it from offset off
RECURSIVE BlocksFrom(_, _)
BlocksFrom(f, off) ==
    IF Len(f) < off + StorageBlockHeaderSize THEN {}
    ELSE LET size == Int32(Bytes(f, off, SizeofInt32))
         IN  IF size < 0 \/ Len(f) < off + StorageBlockHeaderSize + size THEN {}
             ELSE {off} \cup BlocksFrom(f, off + StorageBlockHeaderSize + size)

\* one bit of one byte of a stored block's compressed payload flips while no
\* statement runs: the raw-length byte, the first literal or the last byte
Corrupt ==
    /\ pc = "idle"
    /\ ~corrupted
    /\ \E off \in BlocksFrom(file, SizeofStorageFileHeader) :
         LET size == Int32(Bytes(file, off, SizeofInt32))
         IN  \E k \in {1, 3, size} \cap 1..size :
                LET at == off + StorageBlockHeaderSize + k
                    b == file[at]
                IN  file' = [file EXCEPT ![at] = IF b % 2 = 0 THEN b + 1 ELSE b - 1]
    /\ corrupted' = TRUE
    /\ UNCHANGED <<state, pc, err, out, callbacks, mapping, hist, lastOp, hostVars>>

NextCorrupt == Next \/ Corrupt

Spec == Init /\ [][Next]_vars

SpecCorrupt == Init /\ [][NextCorrupt]_vars

(***************************************************************************)
(* Several backends, each running statements in a transaction of its own.  *)
(* The storage handles are reduced to what the lock protocol is about:     *)
(* whether a handle is open, read-only, mapped.  The host's lock manager   *)
(* grants a relation lock once no other transaction holds a conflicting    *)
(* one and keeps it until the transaction ends; the host itself takes      *)
(* AccessShareLock on a scanned relation and RowExclusiveLock on the       *)
(* target of an INSERT before it plans the statement.                      *)
(***************************************************************************)
Statements == {"select", "insert", "insert_select"}

DoConflict(held, wanted) ==
    \/ held = "AccessExclusiveLock"
    \/ wanted = "AccessExclusiveLock"

\* LockRelation returns at once when no other transaction holds a
\* conflicting lock, and waits otherwise
LockGrantable(b, mode) ==
    \A o \in Backends \ {b} : \A held \in xact[o].locks : ~DoConflict(held, mode)

StatementLocks(stmt) ==
    IF stmt = "select" THEN {"AccessShareLock"}
    ELSE IF stmt = "insert" THEN {"RowExclusiveLock"}
    ELSE {"AccessShareLock", "RowExclusiveLock"}

Scans(stmt) == stmt \in {"select", "insert_select"}
Modifies(stmt) == stmt \in {"insert", "insert_select"}

\* ExecutorStart has run BeginForeignScan / BeginForeignModify for every node
Initialized(x) ==
    /\ x.phase = "run"
    /\ Scans(x.stmt) => x.scan.status # "none"
    /\ Modifies(x.stmt) => x.modify.status # "none"

StartStatement(b, stmt) ==
    /\ xact[b].stmt = "none"
    /\ xact' = [xact EXCEPT ![b].stmt = stmt, ![b].phase = "wait"]
    /\ UNCHANGED <<io, storageVars, optionVars>>

AcquireStatementLocks(b) ==
    /\ xact[b].phase = "wait"
    /\ \A mode \in StatementLocks(xact[b].stmt) : LockGrantable(b, mode)
    /\ xact' = [xact EXCEPT ![b].locks = @ \cup StatementLocks(xact[b].stmt),
                            ![b].phase = "run"]
    /\ UNCHANGED <<io, storageVars, optionVars>>

BeginForeignScan(b, use_mmap) ==
    /\ xact[b].phase = "run"
    /\ Scans(xact[b].stmt)
    /\ xact[b].scan.status = "none"
    /\ xact' = [xact EXCEPT ![b].scan =
                  [status |-> "open", readonly |-> TRUE, mmaped_file |-> use_mmap]]
    /\ io' = [backend |-> b, handle |-> "scan", op |-> "open"]
    /\ UNCHANGED <<storageVars, optionVars>>

IterateForeignScan(b) ==
    /\ Initialized(xact[b])
    /\ xact[b].scan.status = "open"
    /\ io' = [backend |-> b, handle |-> "scan", op |-> "read"]
    /\ UNCHANGED <<xact, storageVars, optionVars>>

EndForeignScan(b) ==
    /\ Initialized(xact[b])
    /\ xact[b].scan.status = "open"
    /\ xact' = [xact EXCEPT ![b].scan.status = "released"]
    /\ io' = [backend |-> b, handle |-> "scan", op |-> "close"]
    /\ UNCHANGED <<storageVars, optionVars>>

\* BeginForeignModify without the LockRelation call
BeginForeignModify_NoLock(b) ==
    /\ xact[b].phase = "run"
    /\ Modifies(xact[b].stmt)
    /\ xact[b].modify.status = "none"
    /\ xact' = [xact EXCEPT
                  ![b].modify =
                      [status |-> "open", readonly |-> FALSE, mmaped_file |-> FALSE]]
    /\ io' = [backend |-> b, handle |-> "modify", op |-> "open"]
    /\ UNCHANGED <<storageVars, optionVars>>

BeginForeignModify(b) ==
    /\ xact[b].phase = "run"
    /\ Modifies(xact[b].stmt)
    /\ xact[b].modify.status = "none"
    /\ LockGrantable(b, "AccessExclusiveLock")
    /\ xact' = [xact EXCEPT
                  ![b].locks = @ \cup {"AccessExclusiveLock"},
                  ![b].modify =
                      [status |-> "open", readonly |-> FALSE, mmaped_file |-> FALSE]]
    /\ io' = [backend |-> b, handle |-> "modify", op |-> "open"]
    /\ UNCHANGED <<storageVars, optionVars>>

ExecForeignInsert(b) ==
    /\ Initialized(xact[b])
    /\ xact[b].modify.status = "open"
    /\ io' = [backend |-> b, handle |-> "modify", op |-> "insert"]
    /\ UNCHANGED <<xact, storageVars, optionVars>>

EndForeignModify(b) ==
    /\ Initialized(xact[b])
    /\ xact[b].modify.status = "open"
    /\ xact' = [xact EXCEPT ![b].modify.status = "released"]
    /\ io' = [backend |-> b, handle |-> "modify", op |-> "flush"]
    /\ UNCHANGED <<storageVars, optionVars>>

\* ExecutorEnd has released every handle; the statement's memory is freed and
\* the transaction keeps its locks
StatementDone(b) ==
    /\ Initialized(xact[b])
    /\ xact[b].scan.status # "open"
    /\ xact[b].modify.status # "open"
    /\ xact' = [xact EXCEPT ![b] = [IdleXact EXCEPT !.locks = xact[b].locks]]
    /\ UNCHANGED <<io, storageVars, optionVars>>

CommitTransaction(b) ==
    /\ xact[b].stmt = "none"
    /\ xact[b].locks # {}
    /\ xact' = [xact EXCEPT ![b] = IdleXact]
    /\ io' = IF io.backend = b THEN NoIO ELSE io
    /\ UNCHANGED <<storageVars, optionVars>>

\* an error, a cancel or the deadlock detector ends the transaction: its
\* files are closed and its locks released
AbortStatement(b) ==
    /\ xact[b].stmt # "none"
    /\ xact' = [xact EXCEPT ![b] = IdleXact]
    /\ io' = IF io.backend = b THEN NoIO ELSE io
    /\ UNCHANGED <<storageVars, optionVars>>

NextLock ==
    \/ \E b \in Backends, stmt \in Statements : StartStatement(b, stmt)
    \/ \E b \in Backends : AcquireStatementLocks(b)
    \/ \E b \in Backends, use_mmap \in BOOLEAN : BeginForeignScan(b, use_mmap)
    \/ \E b \in Backends : IterateForeignScan(b)
    \/ \E b \in Backends : EndForeignScan(b)
    \/ \E b \in Backends : BeginForeignModify(b)
    \/ \E b \in Backends : ExecForeignInsert(b)
    \/ \E b \in Backends : EndForeignModify(b)
    \/ \E b \in Backends : StatementDone(b)
    \/ \E b \in Backends : CommitTransaction(b)
    \/ \E b \in Backends : AbortStatement(b)

SpecLock == Init /\ [][NextLock]_vars

(***************************************************************************)
(* The table is defined, and statements on it are planned and started      *)
(* (specification SpecOptions).  Planning comes before execution: the      *)
(* executor calls a Begin callback only with the plan the planner built.   *)
(***************************************************************************)
InitOptions ==
    /\ file = <<>>
    /\ state = NullState
    /\ pc = "idle"
    /\ err = NoError
    /\ out = <<>>
    /\ callbacks = 0
    /\ mapping = [live |-> 0, stale |-> 0]
    /\ hist = [rows |-> <<>>, sessions |-> 0, clean |-> TRUE]
    /\ lastOp = Op("none", 0)
    /\ corrupted = FALSE
    /\ xact = [b \in Backends |-> IdleXact]
    /\ io = NoIO
    /\ catalog = NoTable
    /\ planned = NoStatement

\* CREATE FOREIGN TABLE ... OPTIONS (options_list): the host calls the
\* validator and stores the options if it returns
CreateForeignTable(options_list, exists, creatable) ==
    /\ ~catalog.defined
    /\ planned.phase = "none"
    /\ \E r \in {tuple_fdw_validator(options_list, exists, creatable)} :
         /\ planned' = [NoStatement EXCEPT
                          !.stmt = "create",
                          !.ddl = options_list,
                          !.err = r.err,
                          !.phase = IF r.err # NoError THEN "failed" ELSE "done",
                          !.io = IF r.created THEN <<"AllocateFile">> ELSE <<>>]
         /\ catalog' = IF r.err # NoError THEN catalog
                       ELSE [defined |-> TRUE, options |-> options_list]
    /\ UNCHANGED <<storageVars, lockVars>>

DropForeignTable ==
    /\ catalog.defined
    /\ planned.phase = "none"
    /\ catalog' = NoTable
    /\ UNCHANGED <<planned, storageVars, lockVars>>

\* planning of a SELECT on the table begins
tupleGetForeignRelSize ==
    /\ catalog.defined
    /\ planned.phase = "none"
    /\ \E r \in {extract_table_options(catalog.options, ZeroOptions)} :
         planned' = [NoStatement EXCEPT
                       !.stmt = "select",
                       !.err = r.err,
                       !.phase = IF r.err # NoError THEN "failed" ELSE "size",
                       !.options = r.options]
    /\ UNCHANGED <<catalog, storageVars, lockVars>>

tupleGetForeignPaths ==
    /\ planned.phase = "size"
    /\ \E r \in {GetForeignPaths(planned.options, planned.pathlist)} :
         planned' = [planned EXCEPT
                       !.err = r.err,
                       !.phase = IF r.err # NoError THEN "failed" ELSE "paths",
                       !.pathlist = r.pathlist]
    /\ UNCHANGED <<catalog, storageVars, lockVars>>

tupleGetForeignPlan ==
    /\ planned.phase = "paths"
    /\ planned' = [planned EXCEPT
                     !.phase = "planned",
                     !.fdw_private = fdw_options_to_list(planned.options)]
    /\ UNCHANGED <<catalog, storageVars, lockVars>>

\* planning of an INSERT into the table; options is what the descriptor on
\* the stack holds on entry
tuplePlanForeignModify(options) ==
    /\ catalog.defined
    /\ planned.phase = "none"
    /\ \E r \in {extract_table_options(catalog.options, options)} :
         planned' = [NoStatement EXCEPT
                       !.stmt = "insert",
                       !.err = r.err,
                       !.phase = IF r.err # NoError THEN "failed" ELSE "planned",
                       !.options = r.options,
                       !.fdw_private = IF r.err # NoError THEN <<>>
                                       ELSE fdw_options_to_list(r.options)]
    /\ UNCHANGED <<catalog, storageVars, lockVars>>

\* tupleBeginForeignScan with the plan's fdw_private: StorageInit(state,
\* filename, true, use_mmap)
PlannedBeginForeignScan ==
    /\ planned.phase = "planned"
    /\ planned.stmt = "select"
    /\ planned' = [planned EXCEPT
                     !.phase = "running",
                     !.handle = [open |-> TRUE, readonly |-> TRUE,
                                 use_mmap |-> planned.fdw_private[2]],
                     !.io = Append(@, "StorageInit")]
    /\ UNCHANGED <<catalog, storageVars, lockVars>>

\* tupleBeginForeignModify handing the table's use_mmap on to StorageInit
PlannedBeginForeignModify_TableOption ==
    /\ planned.phase = "planned"
    /\ planned.stmt = "insert"
    /\ planned' = [planned EXCEPT
                     !.phase = "running",
                     !.handle = [open |-> TRUE, readonly |-> FALSE,
                                 use_mmap |-> planned.fdw_private[2]],
                     !.io = Append(@, "StorageInit")]
    /\ UNCHANGED <<catalog, storageVars, lockVars>>

\* tupleBeginForeignModify with the plan's fdw_private: StorageInit(state,
\* filename, false, false)
PlannedBeginForeignModify ==
    /\ planned.phase = "planned"
    /\ planned.stmt = "insert"
    /\ planned' = [planned EXCEPT
                     !.phase = "running",
                     !.handle = [open |-> TRUE, readonly |-> FALSE,
                                 use_mmap |-> FALSE],
                     !.io = Append(@, "StorageInit")]
    /\ UNCHANGED <<catalog, storageVars, lockVars>>

\* the statement is over: it has run, or it has failed
StatementEnds ==
    /\ planned.phase \in {"running", "done", "failed"}
    /\ planned' = NoStatement
    /\ UNCHANGED <<catalog, storageVars, lockVars>>

NextOptions ==
    \/ \E options_list \in OptionLists, exists \in BOOLEAN, creatable \in BOOLEAN :
          CreateForeignTable(options_list, exists, creatable)
    \/ DropForeignTable
    \/ tupleGetForeignRelSize
    \/ tupleGetForeignPaths
    \/ tupleGetForeignPlan
    \/ \E options \in StackOptions : tuplePlanForeignModify(options)
    \/ PlannedBeginForeignScan
    \/ PlannedBeginForeignModify
    \/ StatementEnds

SpecOptions == InitOptions /\ [][NextOptions]_vars

(***************************************************************************)
(* Properties of the storage engine (specification Spec).                  *)
(***************************************************************************)
\* the rows among the first n results of the scan
RowsIn(s, n) == Cardinality({i \in 1..n : i <= Len(s) /\ s[i] # NULL})

\* every row was inserted by one modification into the empty file, and no
\* insert was rejected
SingleSession == hist.clean /\ hist.sessions <= 1

\* C1: the rows inserted through one write handle on the empty file, each no
\* larger than a block, are what a scan that follows returns: the i-th result
\* is the i-th inserted row, same length and same bytes, and every result
\* after the last row is end-of-data.
C1_RoundTrip ==
    (pc = "scan" /\ SingleSession) =>
        \A i \in DOMAIN out :
            out[i] = IF i <= Len(hist.rows) THEN hist.rows[i] ELSE NULL

\* a scan of a file holding one row of unaligned length has returned a result
C1_Scanned ==
    /\ pc = "scan"
    /\ SingleSession
    /\ Len(hist.rows) = 1
    /\ hist.rows[1].t_len % MAXIMUM_ALIGNOF # 0
    /\ Len(out) = 1

\* C2: in a scan of a file the engine wrote, a result that follows an
\* end-of-data result is end-of-data, a result that follows the return of as
\* many rows as the file stores is end-of-data, and no read made then raises
\* an error.
C2_EndOfScan ==
    /\ pc = "scan" =>
          \A i \in DOMAIN out :
              ((i > 1 /\ out[i - 1] = NULL) \/ RowsIn(out, i - 1) >= Len(hist.rows))
                  => out[i] = NULL
    /\ ~(/\ pc = "error"
         /\ lastOp.op = "StorageReadTuple"
         /\ (RowsIn(out, Len(out)) >= Len(hist.rows)
                \/ (out # <<>> /\ out[Len(out)] = NULL)))

\* a scan has read past the one row that fills the file's only block
C2_FullBlockScanned ==
    /\ pc = "scan"
    /\ Len(hist.rows) = 1
    /\ hist.rows[1].t_len = BLOCK_SIZE - StorageTupleHeaderSize
    /\ Len(out) = 2

\* the padded size of the record of a tuple of t_len bytes
RecordSize(t_len) == MAXALIGN(t_len + StorageTupleHeaderSize)

\* write handles are never mapped, so their reads do not depend on the oracle
AnyUB == CHOOSE ub \in UB : TRUE

\* the block and cursor StorageInsertTuple works on: those of the handle, or
\* on the handle's first insert the last block of the file and the end of its
\* records
Positioned(s, f) ==
    IF BlockIsInvalid(s.cur_block)
    THEN find_last_tuple_offset(load_last_block(s, f, AnyUB).state)
    ELSE s

\* the block stored at offset off of file f passes its checksum
ChecksumOK(f, off) ==
    /\ Len(f) >= off + StorageBlockHeaderSize
    /\ LET size == Int32(Bytes(f, off, SizeofInt32))
       IN  /\ size >= 0
           /\ Len(f) >= off + StorageBlockHeaderSize + size
           /\ Crc32c(Bytes(f, off + StorageBlockHeaderSize, size))
                 = Int32(Bytes(f, off + SizeofInt32, SizeofInt32))

\* the decompressed bytes of the block stored at offset off of file f
StoredBlock(f, off) ==
    LZ4_decompress_safe(
        Bytes(f, off + StorageBlockHeaderSize, Int32(Bytes(f, off, SizeofInt32))),
        BLOCK_SIZE).data

\* the step is a StorageInsertTuple call that returned
Inserted == lastOp'.op = "StorageInsertTuple" /\ err' = NoError

\* C5: an insert whose record ends at or before BLOCK_SIZE goes into the
\* current block at the cursor and writes nothing to the file; any other
\* insert writes the current block out and puts the record at offset 0 of a
\* new block, whose file offset is the old block's offset plus the block
\* header size plus the compressed size stored on disk for the old block; the
\* first block ever is at the end of the file header.
C5_BlockRollover ==
    [][Inserted =>
        LET s == Positioned(state, file)
            size == RecordSize(lastOp'.t_len)
            length == ToBytes(MAXALIGN(lastOp'.t_len), StorageTupleHeaderSize)
        IN  /\ (Len(file) <= SizeofStorageFileHeader /\ BlockIsInvalid(state.cur_block))
                  => s.cur_block.offset = SizeofStorageFileHeader
            /\ IF s.cur_offset + size <= BLOCK_SIZE
               THEN /\ state'.cur_block.offset = s.cur_block.offset
                    /\ state'.cur_offset = s.cur_offset + size
                    /\ Bytes(state'.cur_block.data, s.cur_offset,
                             StorageTupleHeaderSize) = length
                    /\ Bytes(state'.cur_block.data, 0, s.cur_offset)
                          = Bytes(s.cur_block.data, 0, s.cur_offset)
                    /\ file' = file
               ELSE /\ state'.cur_block.status = BS_NEW
                    /\ ChecksumOK(file', s.cur_block.offset)
                    /\ StoredBlock(file', s.cur_block.offset) = s.cur_block.data
                    /\ state'.cur_block.offset =
                          s.cur_block.offset + StorageBlockHeaderSize
                              + Int32(Bytes(file', s.cur_block.offset, SizeofInt32))
                    /\ state'.cur_offset = size
                    /\ Bytes(state'.cur_block.data, 0, StorageTupleHeaderSize) = length
    ]_vars

\* an insert has rolled over to a second block, right after an insert that
\* filled the first block to exactly BLOCK_SIZE bytes
C5_RolledOver ==
    /\ pc = "modify"
    /\ lastOp.op = "StorageInsertTuple"
    /\ state.cur_block.status = BS_NEW
    /\ state.cur_block.offset > SizeofStorageFileHeader
    /\ state.cur_offset = RecordSize(lastOp.t_len)
    /\ Len(hist.rows) >= 2
    /\ LastTupleOffset(StoredBlock(file, SizeofStorageFileHeader), 0) = BLOCK_SIZE

\* C6: an insert whose record is larger than BLOCK_SIZE raises "maximum tuple
\* size exceeded" and leaves the file, the block (buffer, status, offset) and
\* the cursor as they were, on a handle that has a block and on one that has
\* none yet.
C6_OversizeRejected ==
    [][(lastOp'.op = "StorageInsertTuple" /\ RecordSize(lastOp'.t_len) > BLOCK_SIZE)
          => /\ err' = ErrTupleSize
             /\ file' = file
             /\ state' = state
    ]_vars

\* an oversize row was rejected on a handle that holds rows not yet flushed
C6_RejectedAfterInsert ==
    /\ err = ErrTupleSize
    /\ lastOp.op = "StorageInsertTuple"
    /\ RecordSize(lastOp.t_len) > BLOCK_SIZE
    /\ state.cur_block.status \in {BS_NEW, BS_MODIFIED}

\* C8: StorageRelease on a handle whose block is INVALID or LOADED (no insert
\* went through the handle) leaves every byte of the file, the file header
\* included, as it was.
C8_IdempotentFlush ==
    [][(lastOp'.op = "StorageRelease" /\ state.cur_block.status \in {BS_INVALID, BS_LOADED})
          => file' = file
    ]_vars

\* a write handle opened on a file that holds a block was released without
\* an insert
C8_ReleasedUntouched ==
    /\ pc = "ended"
    /\ lastOp.op = "StorageRelease"
    /\ ~state.readonly
    /\ state.cur_block.status = BS_INVALID
    /\ Len(file) > SizeofStorageFileHeader

\* C10: at most one mapping is live, none is live once the query context is
\* gone, and munmap is never called on a mapping already unmapped; a mapping
\* goes away only when the query context is reset or deleted (after the scan
\* has ended or the statement has failed), and StorageRelease leaves it in
\* place.
MappingHeld ==
    /\ mapping.stale = 0
    /\ mapping.live <= 1
    /\ pc = "idle" => mapping.live = 0
    /\ (pc \in {"scan", "ended"} /\ state.mmaped_file) => mapping.live = 1

UnmapOnce ==
    [][/\ mapping'.live < mapping.live
           => pc \in {"ended", "error"} /\ pc' = "idle" /\ mapping'.live = mapping.live - 1
       /\ lastOp'.op = "StorageRelease"
           => mapping' = mapping /\ state'.mmaped_file = state.mmaped_file
    ]_vars

C10_MmapRelease == []MappingHeld /\ UnmapOnce

\* a mapped scan was released and its mapping is still in place
C10_ReleasedMapped ==
    /\ pc = "ended"
    /\ state.mmaped_file
    /\ ~state.file
    /\ mapping.live = 1

\* what a scan of file f returns, call by call, up to its first end-of-data
\* or error; one sequence for every way the out-of-bounds reads can come out
ScanResult(e, tuple) == [err |-> e, tuple |-> tuple]

RECURSIVE ScanFrom(_, _, _)
ScanFrom(s, f, fuel) ==
    IF fuel = 0 THEN {<<>>}
    ELSE UNION {
        LET r == StorageReadTuple(s, f, ub)
        IN  IF r.err # NoError \/ r.tuple = NULL
            THEN {<<ScanResult(r.err, r.tuple)>>}
            ELSE {<<ScanResult(r.err, r.tuple)>> \o rest :
                     rest \in ScanFrom(r.state, f, fuel - 1)}
        : ub \in UB}

ScanOutcomes(f, use_mmap) ==
    LET i == StorageInit(f, TRUE, use_mmap)
    IN  IF i.err # NoError
        THEN {<<ScanResult(i.err, NULL)>>}
        ELSE ScanFrom(i.state, f, MaxRows + 2)

\* C7: a scan of the backing file, as it is between two statements, has the
\* same outcome with use_mmap = true as with use_mmap = false: the same rows,
\* then end-of-data, and no error on one path only.
C7_MmapEquivalence ==
    pc = "idle" => ScanOutcomes(file, TRUE) = ScanOutcomes(file, FALSE)

\* a mapped scan of the zero-length file has failed
C7_EmptyFileMapped ==
    /\ pc = "error"
    /\ lastOp.op = "StorageInit"
    /\ err = ErrMmap
    /\ file = <<>>

(***************************************************************************)
(* Properties of the storage engine when a stored byte changes behind its  *)
(* back (specification SpecCorrupt).                                       *)
(***************************************************************************)
\* the block that load_next_block would read next is stored in full in f
\* and fails its checksum
NextBlockBad(s, f) ==
    LET off == IF BlockIsInvalid(s.cur_block) THEN SizeofStorageFileHeader
               ELSE s.cur_block.offset + StorageBlockHeaderSize
                        + s.cur_block.compressed_size
    IN  /\ off \in BlocksFrom(f, SizeofStorageFileHeader)
        /\ ~ChecksumOK(f, off)

\* a block that a handle holds as LOADED passed its checksum
LoadedVerified ==
    (pc \in {"scan", "modify"} /\ state.cur_block.status = BS_LOADED)
        => ChecksumOK(file, state.cur_block.offset)

\* a read that has a bad block next either fails with "wrong checksum",
\* loading nothing, or returns a record of the block it is on; an insert that
\* has to load a bad last block fails with "wrong checksum"
BadBlockRejected ==
    [][/\ (lastOp'.op = "StorageReadTuple" /\ NextBlockBad(state, file))
            => \/ err' = ErrChecksum /\ state' = state /\ out' = out
               \/ /\ err' = NoError
                  /\ state'.cur_block = state.cur_block
                  /\ out'[Len(out')] # NULL
       /\ (/\ lastOp'.op = "StorageInsertTuple"
           /\ RecordSize(lastOp'.t_len) <= BLOCK_SIZE
           /\ BlockIsInvalid(state.cur_block)
           /\ state.file_header.last_block_offset
                 \in BlocksFrom(file, SizeofStorageFileHeader)
           /\ ~ChecksumOK(file, state.file_header.last_block_offset))
            => err' = ErrChecksum /\ state' = state /\ file' = file
    ]_vars

\* C9: on the buffered and on the mapped path, a block whose stored payload
\* does not give the stored checksum is never LOADED and no row is returned
\* from it: the read fails with "wrong checksum".
C9_CorruptionDetected == []LoadedVerified /\ BadBlockRejected

\* a mapped scan has failed with "wrong checksum" on a block altered after it
\* was written
C9_ChecksumError ==
    /\ pc = "error"
    /\ err = ErrChecksum
    /\ lastOp.op = "StorageReadTuple"
    /\ corrupted
    /\ state.mmaped_file

(***************************************************************************)
(* Properties of the lock protocol (specification SpecLock).               *)
(***************************************************************************)
HoldsExclusive(b) == "AccessExclusiveLock" \in xact[b].locks

\* C3: a backend's modify handle exists only under its AccessExclusiveLock,
\* from before the file is opened until after the flush; while one backend
\* holds that lock no other backend holds any lock on the table or any handle
\* on the file, and the file operations of a modification are those of the
\* lock's holder.
C3_ExclusiveWrite ==
    /\ \A b \in Backends : xact[b].modify.status # "none" => HoldsExclusive(b)
    /\ \A a, b \in Backends :
          (a # b /\ HoldsExclusive(a))
              => /\ xact[b].locks = {}
                 /\ xact[b].scan.status = "none"
                 /\ xact[b].modify.status = "none"
    /\ io.handle = "modify" => HoldsExclusive(io.backend)

\* one backend has flushed its modification while another waits to start one
C3_SecondWaits ==
    \E a, b \in Backends :
        /\ a # b
        /\ xact[a].modify.status = "released"
        /\ io = [backend |-> a, handle |-> "modify", op |-> "flush"]
        /\ Modifies(xact[b].stmt)
        /\ xact[b].phase = "wait"

\* C4: no scan handle is open on the file while a modify handle is open on
\* it, whichever backends and statements the two belong to.
C4_ReaderWriterExclusion ==
    \A a, b \in Backends :
        ~(xact[a].scan.status = "open" /\ xact[b].modify.status = "open")

\* a statement that scans and modifies the table has both handles open
C4_SameStatement ==
    \E b \in Backends :
        /\ xact[b].stmt = "insert_select"
        /\ xact[b].scan.status = "open"
        /\ xact[b].modify.status = "open"
        /\ io.op = "insert"

(***************************************************************************)
(* Properties of the option handling (specification SpecOptions).          *)
(***************************************************************************)
KnownOptions == {"filename", "sorted", "use_mmap", "lz4_acceleration"}

HasOption(l, defname) == \E i \in DOMAIN l : l[i].defname = defname

HasUnknownOption(l) == \E i \in DOMAIN l : l[i].defname \notin KnownOptions

\* the values of sorted that name a column the table does not have
MissingColumn(arg) == arg \in {"x", "a x", "ab"}

SortedMissingColumn(l) ==
    \E i \in DOMAIN l : l[i].defname = "sorted" /\ MissingColumn(l[i].arg)

\* the validator has run on the list planned.ddl
Validated == planned.stmt = "create" /\ planned.phase \in {"done", "failed"}

\* a statement on the table is being planned or run
Planning == planned.stmt \in {"select", "insert"} /\ planned.phase # "none"

\* an option that comes in l before one that satisfies Late(_) raises err by
\* itself: a use_mmap that is no Boolean, a filename whose file can neither
\* be found nor created, an lz4_acceleration that is no integer
FailsEarlier(l, e, Late(_)) ==
    \E i, j \in DOMAIN l :
        /\ i < j
        /\ Late(l[j])
        /\ \/ e = ErrBoolean /\ l[i].defname = "use_mmap"
                 /\ l[i].arg \notin {"true", "false"}
           \/ e = ErrCannotOpen /\ l[i].defname = "filename"
           \/ e = ErrInteger /\ l[i].defname = "lz4_acceleration"
                 /\ l[i].arg \notin {"1", "2"}

IsUnknown(def) == def.defname \notin KnownOptions

IsSortedMissing(def) == def.defname = "sorted" /\ MissingColumn(def.arg)

\* C11 (as stated): the validator fails on a list without filename, fails
\* with "unknown option" on a list with any other option name, and a sorted
\* list that names a missing column makes every statement on the table fail
\* with "invalid attribute name" in planning, before any file I/O.
C11_OptionValidation ==
    /\ Validated =>
          /\ ~HasOption(planned.ddl, "filename") => planned.err # NoError
          /\ HasUnknownOption(planned.ddl) => planned.err = ErrUnknownOption
    /\ (Planning /\ SortedMissingColumn(catalog.options)) =>
          /\ planned.phase = "failed"
          /\ planned.err = ErrInvalidAttribute
          /\ planned.io = <<>>

\* C11 (amended): the validator fails on a list without filename and on a
\* list with an unknown option name, and a sorted list that names a missing
\* column makes every statement on the table fail in planning, before any
\* file I/O; the error is "unknown option", respectively "invalid attribute
\* name", unless an option earlier in the list has raised its own error.
C11_OptionValidationInOrder ==
    /\ Validated =>
          /\ ~HasOption(planned.ddl, "filename") => planned.err # NoError
          /\ HasUnknownOption(planned.ddl) =>
                \/ planned.err = ErrUnknownOption
                \/ /\ planned.err \in {ErrBoolean, ErrCannotOpen}
                   /\ FailsEarlier(planned.ddl, planned.err, IsUnknown)
          /\ planned.err = NoError =>
                /\ planned.phase = "done"
                /\ catalog = [defined |-> TRUE, options |-> planned.ddl]
    /\ (Planning /\ SortedMissingColumn(catalog.options)) =>
          /\ planned.phase = "failed"
          /\ planned.io = <<>>
          /\ \/ planned.err = ErrInvalidAttribute
             \/ /\ planned.err = ErrInteger
                /\ FailsEarlier(catalog.options, planned.err, IsSortedMissing)

\* the planning of a SELECT has failed on a sorted list that names a missing
\* column, which the validator had let through
C11_FailedInPlanning ==
    /\ planned.stmt = "select"
    /\ planned.phase = "failed"
    /\ planned.err = ErrInvalidAttribute
    /\ SortedMissingColumn(catalog.options)
    /\ catalog.defined

\* the attribute numbers of the columns a value of sorted lists, in order
ListedColumns(arg) ==
    CASE arg = "a" -> <<1>>
      [] arg = "c" -> <<3>>
      [] arg = "a b" -> <<1, 2>>
      [] arg = "b a" -> <<2, 1>>
      [] arg = " b  a " -> <<2, 1>>
      [] OTHER -> <<>>

\* the columns the table's sorted option lists, none if it has no such option
SortedColumns(l) ==
    IF HasOption(l, "sorted")
    THEN ListedColumns(l[CHOOSE i \in DOMAIN l : l[i].defname = "sorted"].arg)
    ELSE <<>>

\* every listed column has a type with an ordering operator
AllOrdered(columns) ==
    \A i \in DOMAIN columns : Attributes[AttributeOf(columns[i])].ordered

\* the step adds one path to the pathlist, with the listed columns as keys
OnePathAdded ==
    /\ planned'.phase = "paths"
    /\ planned'.pathlist =
          <<ForeignPath(0, 100, SortedColumns(catalog.options))>>

\* C12 (as stated): tupleGetForeignPaths adds exactly one path, with startup
\* cost 0 and total cost 100, whose ordering keys are the columns that sorted
\* lists, one key per column in the listed order, and no key when the table
\* has no sorted option.
C12_SortHint == [][planned.phase = "size" => OnePathAdded]_vars

\* C12 (amended): tupleGetForeignPaths adds exactly that path when every
\* listed column's type has an ordering operator; when one has none the
\* planning fails with the host's "could not identify an ordering operator"
\* and no path is added.
C12_SortHintOrdered ==
    [][planned.phase = "size" =>
          IF AllOrdered(SortedColumns(catalog.options))
          THEN OnePathAdded
          ELSE /\ planned'.phase = "failed"
               /\ planned'.err = ErrNoOrdering
               /\ planned'.pathlist = <<>>
    ]_vars

\* the path of a table with two sorted columns, the second column first
C12_TwoKeys ==
    /\ planned.phase = "paths"
    /\ Len(planned.pathlist) = 1
    /\ planned.pathlist[1].pathkeys = <<2, 1>>

(***************************************************************************)
(* Further properties of the storage engine (specification Spec).          *)
(***************************************************************************)
\* a row as its record holds it: the length rounded up to the alignment,
\* the bytes followed by zero padding
Padded(tuple) ==
    [t_len |-> MAXALIGN(tuple.t_len),
     t_data |-> tuple.t_data \o Zeros(MAXALIGN(tuple.t_len) - tuple.t_len)]

\* C13: after write sessions that all ran to their StorageRelease, a scan
\* returns the rows of all sessions in session order and insertion order
\* (each as its record holds it) and then end-of-data, and raises no error:
\* no row of an earlier session is overwritten or dropped by a later one.
C13_AppendAcrossSessions ==
    /\ (pc = "scan" /\ hist.clean) =>
          \A i \in DOMAIN out :
              out[i] = IF i <= Len(hist.rows) THEN Padded(hist.rows[i]) ELSE NULL
    /\ ~(pc = "error" /\ hist.clean /\ lastOp.op = "StorageReadTuple")

\* a scan has returned a result for each row of two sessions
C13_TwoSessionsScanned ==
    /\ pc = "scan"
    /\ hist.clean
    /\ hist.sessions = 2
    /\ Len(out) = Len(hist.rows)

\* the record header at the cursor lies inside data[0 .. BLOCK_SIZE - 1]
HeaderInside(off) == off + StorageTupleHeaderSize <= BLOCK_SIZE

\* StorageReadTuple on this handle dereferences st_header->length at the
\* cursor: the two tests before it in the || chain are both false
InspectsLength(s) ==
    ~BlockIsInvalid(s.cur_block) /\ ~(s.cur_offset > BLOCK_SIZE)

\* C14: no StorageReadTuple call of a scan reads the length field of a
\* record whose header does not lie entirely inside the block buffer; with
\* the cursor at BLOCK_SIZE the call goes to the next block or to end of
\* data without looking at data[BLOCK_SIZE] and beyond.
C14_CursorInsideBlock ==
    [][(pc = "scan" /\ lastOp'.op = "StorageReadTuple" /\ InspectsLength(state))
          => HeaderInside(state.cur_offset)]_vars

\* a scan has returned the last record of an exactly full block and has
\* been called again
C14_ReadAfterFullBlock ==
    /\ pc = "scan" /\ lastOp.op = "StorageReadTuple" /\ hist.clean
    /\ Len(out) >= 2
    /\ RecordSize(out[1].t_len) = BLOCK_SIZE

\* the offset at which the walk over the blocks of file f from offset off
\* stops: the end of the last block that is stored in full
RECURSIVE TilingEnd(_, _)
TilingEnd(f, off) ==
    IF off \notin BlocksFrom(f, off) THEN off
    ELSE TilingEnd(f, off + StorageBlockHeaderSize + Int32(Bytes(f, off, SizeofInt32)))

\* the greatest element of a non-empty set of offsets
LastOf(offsets) == CHOOSE off \in offsets : \A o \in offsets : o <= off

\* every write session so far ran to its StorageRelease and the file exists
SessionsComplete == pc = "idle" /\ hist.clean /\ Len(file) > 0

\* C15: after complete write sessions, whatever their acceleration settings,
\* the file is its header followed by blocks laid end to end from offset
\* sizeof(StorageFileHeader), the last block ends exactly at end of file, and
\* the stored last_block_offset is the offset of the last block.
C15_BlocksTileFile ==
    SessionsComplete =>
        /\ Len(file) >= SizeofStorageFileHeader
        /\ TilingEnd(file, SizeofStorageFileHeader) = Len(file)
        /\ LET blocks == BlocksFrom(file, SizeofStorageFileHeader)
           IN  blocks # {} =>
                  SizeOf(Bytes(file, 0, SizeofStorageFileHeader)) = LastOf(blocks)

\* two complete sessions with different acceleration settings have both
\* written the last block
C15_RewrittenLastBlock ==
    /\ SessionsComplete
    /\ hist.sessions = 2
    /\ Cardinality(BlocksFrom(file, SizeofStorageFileHeader)) = 1
    /\ Len(hist.rows) = 2

(***************************************************************************)
(* The calls flush_last_block makes on the stream, in program order.       *)
(***************************************************************************)
\* fseek(state->file, pos, SEEK_SET)
storage_seek(pos) == [call |-> "fseek", pos |-> pos, bytes |-> <<>>]

\* fwrite(ptr, 1, size, state->file)
storage_write(bytes) == [call |-> "fwrite", pos |-> 0, bytes |-> bytes]

\* fsync(fileno(state->file))
fsync == [call |-> "fsync", pos |-> 0, bytes |-> <<>>]

\* the StorageBlockHeader and its payload as storage_write gets them
BlockBytes(block_header) ==
    ToBytes(block_header.compressed_size, SizeofInt32)
        \o ToBytes(block_header.checksum, SizeofInt32)
        \o block_header.data

\* flush_last_block writing the file header before the block
FlushCalls_HeaderFirst(s) ==
    (IF s.cur_block.status = BS_NEW
     THEN <<storage_seek(0),
            storage_write(ToBytes(s.cur_block.offset, SizeofStorageFileHeader))>>
     ELSE <<>>)
    \o <<storage_seek(s.cur_block.offset),
          storage_write(BlockBytes(compress_current_block(s))),
          fsync>>

\* the calls of flush_last_block on a block that is NEW or MODIFIED
FlushCalls(s) ==
    <<storage_seek(s.cur_block.offset),
      storage_write(BlockBytes(compress_current_block(s)))>>
    \o (IF s.cur_block.status = BS_NEW
        THEN <<storage_seek(0),
               storage_write(ToBytes(s.cur_block.offset, SizeofStorageFileHeader))>>
        ELSE <<>>)
    \o <<fsync>>

\* the file and the file position after one call, each write taking effect
\* at once
Perform(c, at) ==
    IF c.call = "fseek" THEN [pos |-> c.pos, file |-> at.file]
    ELSE IF c.call = "fwrite"
    THEN [pos |-> at.pos + Len(c.bytes), file |-> StoreAt(at.file, at.pos, c.bytes)]
    ELSE at

\* the file after each of the calls in turn
RECURSIVE FilesDuring(_, _)
FilesDuring(calls, at) ==
    IF calls = <<>> THEN <<>>
    ELSE <<Perform(Head(calls), at).file>>
            \o FilesDuring(Tail(calls), Perform(Head(calls), at))

\* the handle s as flush_last_block finds it when an insert of t_len bytes
\* has to flush; NullState when the insert does not flush
FlushingInsert(s, t_len) ==
    IF s.cur_offset + RecordSize(t_len) > BLOCK_SIZE
          /\ s.cur_block.status # BS_LOADED
    THEN s ELSE NullState

\* the handle as the step's flush_last_block finds it, when the step is a
\* StorageRelease or a StorageInsertTuple that flushes; NullState otherwise
Flushing ==
    IF pc # "modify" THEN NullState
    ELSE IF lastOp'.op = "StorageRelease"
    THEN (IF state.cur_block.status \in {BS_NEW, BS_MODIFIED} THEN state
          ELSE NullState)
    ELSE IF lastOp'.op = "StorageInsertTuple" /\ err' = NoError
    THEN FlushingInsert(Positioned(state, file), lastOp'.t_len)
    ELSE NullState

\* the stored last_block_offset of file f names a block stored in full, or
\* the end of the file header while the file holds nothing else
HeaderNamesBlock(f) ==
    LET last_block_offset == SizeOf(Bytes(f, 0, SizeofStorageFileHeader))
    IN  \/ last_block_offset \in BlocksFrom(f, SizeofStorageFileHeader)
        \/ last_block_offset = SizeofStorageFileHeader /\ Len(f) = SizeofStorageFileHeader

\* the index of the first call of the sequence that writes at offset pos
\* (0 when there is none)
RECURSIVE WriteAt(_, _, _)
WriteAt(calls, pos, i) ==
    IF i + 1 > Len(calls) THEN 0
    ELSE IF calls[i].call = "fseek" /\ calls[i].pos = pos
            /\ calls[i + 1].call = "fwrite"
    THEN i + 1
    ELSE WriteAt(calls, pos, i + 1)

\* the flush of handle s, that takes the file from f to f2, writes the block
\* before the file header and keeps last_block_offset true at every call
FlushInOrder(s, calls, files, flushed, f, f2) ==
    /\ f2 = files[Len(files)]
    /\ f2 = flushed.file
    /\ \A i \in DOMAIN files : HeaderNamesBlock(files[i])
    /\ WriteAt(calls, s.cur_block.offset, 1) > 0
    /\ IF s.cur_block.status = BS_NEW
       THEN /\ WriteAt(calls, 0, 1) > WriteAt(calls, s.cur_block.offset, 1)
            /\ SizeOf(Bytes(f2, 0, SizeofStorageFileHeader)) = s.cur_block.offset
            /\ flushed.state.file_header.last_block_offset = s.cur_block.offset
            /\ flushed.state.cur_block.status = BS_LOADED
       ELSE /\ WriteAt(calls, 0, 1) = 0
            /\ Bytes(f2, 0, SizeofStorageFileHeader)
                  = Bytes(f, 0, SizeofStorageFileHeader)
            /\ flushed.state.file_header.last_block_offset
                  = s.file_header.last_block_offset

\* the step flushes no block, or flushes the block of handle s in order
FlushStep(s) ==
    s # NullState =>
        \E calls \in {FlushCalls(s)} :
        \E files \in {FilesDuring(calls, [pos |-> 0, file |-> file])} :
        \E flushed \in {flush_last_block(s, file)} :
            FlushInOrder(s, calls, files, flushed, file, file')

\* C16: a flush of a NEW block writes the block at its offset before it
\* writes that offset into the file header, a flush of a MODIFIED block
\* writes no file header and leaves last_block_offset alone, and a block that
\* was NEW is LOADED after its flush; so at every moment, between the calls
\* of a flush too, the stored last_block_offset names a block stored in full
\* or, in a file without blocks, the end of the file header.
C16_HeaderFollowsBlock ==
    /\ [](Len(file) > 0 => HeaderNamesBlock(file))
    /\ [][\E s \in {Flushing} : FlushStep(s)]_vars

\* a StorageInsertTuple has flushed a NEW block that is not the first block
\* of the file
C16_SecondBlockFlushed ==
    /\ pc = "modify"
    /\ lastOp.op = "StorageInsertTuple"
    /\ state.cur_block.status = BS_NEW
    /\ SizeOf(Bytes(file, 0, SizeofStorageFileHeader)) > SizeofStorageFileHeader
    /\ state.cur_block.offset > SizeOf(Bytes(file, 0, SizeofStorageFileHeader))

(***************************************************************************)
(* The stream of AllocateFile is a fully buffered stdio stream: fwrite     *)
(* collects bytes in the stream buffer and hands whole buffers to the      *)
(* kernel, fseek hands over what is pending, and fsync on the descriptor   *)
(* makes durable what the kernel has been handed.                          *)
(***************************************************************************)
StreamBufferSize == 16

\* a stream over file f with nothing pending
Stream(f) == [pos |-> 0, at |-> 0, pending |-> <<>>, kernel |-> f, device |-> f]

\* the part of n bytes that fills whole stream buffers
WholeBuffers(n) == n - (n % StreamBufferSize)

\* fwrite of bytes c.bytes: what does not fill whole buffers stays pending
BufferedWrite(c, st, total) ==
    IF Len(total) <= StreamBufferSize
    THEN [st EXCEPT !.pos = @ + Len(c.bytes), !.pending = total]
    ELSE [st EXCEPT
            !.pos = @ + Len(c.bytes),
            !.kernel = StoreAt(@, st.at, SubSeq(total, 1, WholeBuffers(Len(total)))),
            !.at = @ + WholeBuffers(Len(total)),
            !.pending = SubSeq(total, WholeBuffers(Len(total)) + 1, Len(total))]

\* the stream after one call
BufferedPerform(c, st) ==
    IF c.call = "fseek"
    THEN [st EXCEPT !.pos = c.pos, !.at = c.pos, !.pending = <<>>,
                    !.kernel = IF st.pending = <<>> THEN @
                               ELSE StoreAt(@, st.at, st.pending)]
    ELSE IF c.call = "fwrite"
    THEN BufferedWrite(c, st, st.pending \o c.bytes)
    ELSE [st EXCEPT !.device = st.kernel]

\* the stream after the calls in turn
RECURSIVE StreamAfter(_, _)
StreamAfter(calls, st) ==
    IF calls = <<>> THEN st
    ELSE StreamAfter(Tail(calls), BufferedPerform(Head(calls), st))

\* the flush of handle s has all its bytes on the device when it returns
FlushDurable(s) ==
    s # NullState =>
        \E st \in {StreamAfter(FlushCalls(s), Stream(file))} :
            /\ st.pending = <<>>
            /\ st.device = file'

\* C17: when flush_last_block returns after writing a NEW or MODIFIED block,
\* every byte it wrote with storage_write is on the device: at the fsync none
\* is held in the stream buffer only.
C17_DurableFlush ==
    [][\E s \in {Flushing} : FlushDurable(s)]_vars

\* StorageRelease has flushed a block
C17_ReleasedAfterFlush ==
    /\ pc = "ended"
    /\ lastOp.op = "StorageRelease"
    /\ ~state.readonly
    /\ state.cur_block.status \in {BS_LOADED, BS_MODIFIED}
    /\ Len(hist.rows) > 0

\* the bytes of file f after the file header
BlockArea(f) ==
    IF Len(f) <= SizeofStorageFileHeader THEN <<>>
    ELSE SubSeq(f, SizeofStorageFileHeader + 1, Len(f))

\* the insert of the step found room for its record in the block of handle s
Fits(s) == s.cur_offset + RecordSize(lastOp'.t_len) <= BLOCK_SIZE

\* the block of handle s is on disk in file f as the handle holds it, at the
\* offset the file header gives for the last block
BlockOnDisk(s, f) ==
    /\ SizeOf(Bytes(f, 0, SizeofStorageFileHeader)) = s.cur_block.offset
    /\ s.cur_block.offset \in BlocksFrom(f, SizeofStorageFileHeader)
    /\ ChecksumOK(f, s.cur_block.offset)
    /\ StoredBlock(f, s.cur_block.offset) = s.cur_block.data

\* C18: an insert whose padded record fits in the current block leaves the
\* file as it is; block bytes of the file change only in an insert that
\* rolls over and in StorageRelease; and StorageRelease leaves the block
\* that holds the rows inserted since the last flush on disk, so that no
\* inserted row is in memory only.
C18_LazyFlush ==
    [][/\ Inserted => \E s \in {Positioned(state, file)} : Fits(s) => file' = file
       /\ BlockArea(file') # BlockArea(file) =>
              /\ pc = "modify"
              /\ \/ lastOp'.op = "StorageRelease"
                 \/ /\ Inserted
                    /\ \E s \in {Positioned(state, file)} : ~Fits(s)
       /\ (pc = "modify" /\ lastOp'.op = "StorageRelease"
              /\ ~BlockIsInvalid(state.cur_block))
             => BlockOnDisk(state, file')
    ]_vars

\* StorageRelease has written out a block that took two inserts which both
\* fitted
C18_ReleasedTwoRows ==
    /\ pc = "ended"
    /\ lastOp.op = "StorageRelease"
    /\ ~state.readonly
    /\ hist.clean
    /\ Len(hist.rows) = 2
    /\ Cardinality(BlocksFrom(file, SizeofStorageFileHeader)) = 1
    /\ LastTupleOffset(StoredBlock(file, SizeofStorageFileHeader), 0)
          = RecordSize(hist.rows[1].t_len) + RecordSize(hist.rows[2].t_len)

\* C19: the block of a read-only handle is INVALID or LOADED, never NEW or
\* MODIFIED, and StorageInit, StorageReadTuple and StorageRelease on a
\* read-only handle leave every byte of the file as it is, a brand-new empty
\* file included: its header is set up in the handle only.
C19_ReadOnlyNeverWrites ==
    /\ [](state.readonly => state.cur_block.status \in {BS_INVALID, BS_LOADED})
    /\ [][(state.readonly \/ state'.readonly) => file' = file]_vars
    /\ []((state.readonly /\ state.file /\ file = <<>> /\ err = NoError)
            => state.file_header.last_block_offset = SizeofStorageFileHeader)

\* a scan of a brand-new empty file has been read from and released
C19_EmptyFileScanned ==
    /\ pc = "ended"
    /\ state.readonly
    /\ lastOp.op = "StorageRelease"
    /\ file = <<>>
    /\ Len(out) >= 1

(***************************************************************************)
(* Further properties of the adapter (specification SpecOptions).          *)
(***************************************************************************)
\* C20: a handle the adapter opens with readonly = false is opened with
\* use_mmap = false, whatever the table's use_mmap option says, so it has no
\* mapping; every handle opened with use_mmap = true is read-only.
C20_WriteHandlesNotMapped ==
    planned.handle.open =>
        /\ ~planned.handle.readonly => ~planned.handle.use_mmap
        /\ planned.handle.use_mmap => planned.handle.readonly
        /\ planned.handle.readonly <=> planned.stmt = "select"

\* an INSERT has opened its handle on a table whose use_mmap option is true
C20_InsertOnMappedTable ==
    /\ planned.stmt = "insert"
    /\ planned.handle.open
    /\ ~planned.handle.readonly
    /\ \E i \in DOMAIN catalog.options :
          catalog.options[i].defname = "use_mmap" /\ catalog.options[i].arg = "true"
    /\ planned.fdw_private[2]

(***************************************************************************)
(* Termination of a scan, the decompressed size, the write cursor          *)
(* (specification Spec; the size check under SpecForeign).                 *)
(***************************************************************************)
\* the step is a StorageReadTuple call that returned a row
RowReturned ==
    /\ pc = "scan"
    /\ lastOp'.op = "StorageReadTuple"
    /\ err' = NoError
    /\ Len(out') = Len(out) + 1
    /\ out'[Len(out')] # NULL

\* C21: a scan of a file that complete write sessions left with N rows
\* returns N rows and then end-of-data: its first N results are rows, every
\* later result is end-of-data, and no call fails; a call that returns a row
\* moves the cursor forward in its block or moves to a block at a greater
\* file offset, so blocks are visited in file order and none twice.
C21_ScanTerminates ==
    /\ []((pc = "scan" /\ hist.clean) =>
            \A i \in DOMAIN out : (out[i] # NULL) <=> (i <= Len(hist.rows)))
    /\ [](~(pc = "error" /\ hist.clean /\ lastOp.op = "StorageReadTuple"))
    /\ [][RowReturned =>
            \/ /\ state'.cur_block.offset = state.cur_block.offset
               /\ state'.cur_offset > state.cur_offset
            \/ state'.cur_block.offset > state.cur_block.offset]_vars
    /\ [][(pc = "scan" /\ lastOp'.op = "StorageReadTuple")
            => state'.cur_block.offset >= state.cur_block.offset]_vars

\* a scan has gone through two blocks and has been called once more
C21_TwoBlocksRead ==
    /\ pc = "scan"
    /\ hist.clean
    /\ state.cur_block.offset > SizeofStorageFileHeader
    /\ Len(out) > Len(hist.rows)

(***************************************************************************)
(* A table's file need not come from this build of the engine: the         *)
(* filename option may name any file.  Between statements a stored block   *)
(* is replaced by one that a writer with another block size produced: its  *)
(* payload announces a raw length other than BLOCK_SIZE and its checksum   *)
(* is the checksum of that payload.                                        *)
(***************************************************************************)
ForeignBlock ==
    /\ pc = "idle"
    /\ ~corrupted
    /\ \E off \in BlocksFrom(file, SizeofStorageFileHeader) :
       \E raw \in {BLOCK_SIZE - MAXIMUM_ALIGNOF, BLOCK_SIZE + MAXIMUM_ALIGNOF} :
       \E size \in {Int32(Bytes(file, off, SizeofInt32))} :
          /\ size >= 2
          /\ \E data \in {[Bytes(file, off + StorageBlockHeaderSize, size)
                               EXCEPT ![1] = raw]} :
                file' = StoreAt(file, off,
                            ToBytes(size, SizeofInt32)
                                \o ToBytes(Crc32c(data), SizeofInt32) \o data)
    /\ corrupted' = TRUE
    /\ UNCHANGED <<state, pc, err, out, callbacks, mapping, hist, lastOp, hostVars>>

NextForeign == Next \/ ForeignBlock

SpecForeign == Init /\ [][NextForeign]_vars

\* what LZ4_decompress_safe returns for the block stored at offset off of f
DecompressedSize(f, off) ==
    LZ4_decompress_safe(
        Bytes(f, off + StorageBlockHeaderSize, Int32(Bytes(f, off, SizeofInt32))),
        BLOCK_SIZE).size

\* C22: a block whose payload does not decompress, or decompresses to a
\* number of bytes other than BLOCK_SIZE, is never marked LOADED by
\* read_block, matching checksum or not: the read fails instead.
C22_DecompressedSizeChecked ==
    (pc \in {"scan", "modify"} /\ state.cur_block.status = BS_LOADED)
        => DecompressedSize(file, state.cur_block.offset) = BLOCK_SIZE

\* a read has met a block whose checksum matches and whose payload does not
\* decompress into BLOCK_SIZE bytes
C22_DecompressionFailed ==
    /\ pc = "error"
    /\ err = ErrDecompress
    /\ lastOp.op = "StorageReadTuple"
    /\ corrupted

\* a write handle holds a block: StorageInit has returned and left none, or
\* a StorageInsertTuple call has returned
WriteHandleWithBlock ==
    /\ pc = "modify"
    /\ ~state.readonly
    /\ ~BlockIsInvalid(state.cur_block)

\* C23: on a write handle that holds a block, cur_offset is a multiple of
\* the maximum alignment between 0 and BLOCK_SIZE, every byte of the block
\* buffer from cur_offset on is zero, and the walk over the length-prefixed
\* records from offset 0, as find_last_tuple_offset makes it, ends at
\* cur_offset.
C23_WriteCursor ==
    WriteHandleWithBlock =>
        /\ state.cur_offset % MAXIMUM_ALIGNOF = 0
        /\ 0 <= state.cur_offset
        /\ state.cur_offset <= BLOCK_SIZE
        /\ \A i \in 1..BLOCK_SIZE :
              i > state.cur_offset => state.cur_block.data[i] = 0
        /\ LastTupleOffset(state.cur_block.data, 0) = state.cur_offset

\* a second session has appended a record to the block the first one left
C23_AppendedToLoadedBlock ==
    /\ WriteHandleWithBlock
    /\ state.cur_block.status = BS_MODIFIED
    /\ hist.sessions = 2
    /\ lastOp.op = "StorageInsertTuple"
    /\ state.cur_offset > RecordSize(lastOp.t_len)

====
